---- MODULE Spec2Model ----
(***************************************************************************)
(* Model of dp_druck_pdf.py: roster names recognised on PDF pages are      *)
(* matched against the rows of a tour spreadsheet and the matched tour is  *)
(* stamped on the page.  Text is modelled as TLA+ strings, character by    *)
(* character; None / NaN are modelled as the empty tuple and a present     *)
(* value v as the one-element tuple <<v>>.                                 *)
(***************************************************************************)
EXTENDS Integers, Sequences, FiniteSets, TLC

VARIABLES
    pc,                 \* position of the script / of the function under test
    excel_file,         \* uploaded spreadsheet: <<>> (none) or <<rows>>
    search_date,        \* st.date_input value (day number)
    pdf_files,          \* uploaded PDFs, in upload order
    use_ocr,            \* checkbox "OCR verwenden"
    fuzzy_installed,    \* whether "from fuzzywuzzy import fuzz" succeeds
    df_excel,           \* parse_excel_data(excel_file)
    day_df,             \* rows of df_excel on search_date
    excel_names,        \* day_df["Name"].unique().tolist()
    pdf_idx,            \* index of the PDF being processed (1-based)
    ocr_names,          \* extract_names_enhanced: results of the current PDF
    page_log,           \* per processed page: what OCR did and the text matched
    display_rows,       \* rows of the report
    annotated_buffers,  \* one page_ann list per annotated PDF
    warnings,           \* st.warning / st.error messages surfaced so far
    args,               \* arguments of the function under test
    ret                 \* its return value

vars == <<pc, excel_file, search_date, pdf_files, use_ocr, fuzzy_installed,
          df_excel, day_df, excel_names, pdf_idx, ocr_names, page_log,
          display_rows, annotated_buffers, warnings, args, ret>>

(***************************************************************************)
(* Characters and strings                                                  *)
(***************************************************************************)
Hd(s) == SubSeq(s, 1, 1)

CharAt(s, i) == SubSeq(s, i, i)

\* "".join(q), by halves
RECURSIVE JoinSeq(_)
JoinSeq(q) ==
    IF Len(q) = 0 THEN ""
    ELSE IF Len(q) = 1 THEN q[1]
    ELSE JoinSeq(SubSeq(q, 1, Len(q) \div 2)) \o JoinSeq(SubSeq(q, (Len(q) \div 2) + 1, Len(q)))

SetMin(S) == CHOOSE x \in S : \A y \in S : x <= y

SetMax(S) == CHOOSE x \in S : \A y \in S : x >= y

LowerAscii == {"a","b","c","d","e","f","g","h","i","j","k","l","m",
               "n","o","p","q","r","s","t","u","v","w","x","y","z"}

UpperAscii == {"A","B","C","D","E","F","G","H","I","J","K","L","M",
               "N","O","P","Q","R","S","T","U","V","W","X","Y","Z"}

Digits == {"0","1","2","3","4","5","6","7","8","9"}

\* the class [A-Za-z0-9] of the regular expressions
IsAsciiAlnum(c) == c \in LowerAscii \cup UpperAscii \cup Digits

\* the class \s of the regular expressions, and what strip() and split() remove
IsSpace(c) == c \in {" ", "\n", "\t"}

LowerToUpper ==
    [c \in LowerAscii |->
        CASE c = "a" -> "A" [] c = "b" -> "B" [] c = "c" -> "C" [] c = "d" -> "D"
          [] c = "e" -> "E" [] c = "f" -> "F" [] c = "g" -> "G" [] c = "h" -> "H"
          [] c = "i" -> "I" [] c = "j" -> "J" [] c = "k" -> "K" [] c = "l" -> "L"
          [] c = "m" -> "M" [] c = "n" -> "N" [] c = "o" -> "O" [] c = "p" -> "P"
          [] c = "q" -> "Q" [] c = "r" -> "R" [] c = "s" -> "S" [] c = "t" -> "T"
          [] c = "u" -> "U" [] c = "v" -> "V" [] c = "w" -> "W" [] c = "x" -> "X"
          [] c = "y" -> "Y" [] c = "z" -> "Z"]

\* str.upper() of one character
UpperChar(c) ==
    IF c \in LowerAscii THEN LowerToUpper[c]
    ELSE CASE c = "ä" -> "Ä" [] c = "ö" -> "Ö" [] c = "ü" -> "Ü"
           [] c = "é" -> "É" [] c = "ß" -> "SS"
           [] OTHER -> c

\* str.upper()
Upper(s) == JoinSeq([i \in 1..Len(s) |-> UpperChar(CharAt(s, i))])

\* the chain of str.replace calls that spells out the German letters (the capital
\* sharp s, U+1E9E, lies outside the characters a module string can hold)
FoldGermanChar(c) ==
    CASE c = "ä" -> "ae" [] c = "ö" -> "oe" [] c = "ü" -> "ue"
      [] c = "Ä" -> "AE" [] c = "Ö" -> "OE" [] c = "Ü" -> "UE"
      [] c = "ß" -> "ss"
      [] OTHER -> c

FoldGerman(s) == JoinSeq([i \in 1..Len(s) |-> FoldGermanChar(CharAt(s, i))])

\* unicodedata.normalize("NFKD", ch) with the combining marks it yields removed:
\* an accented letter decomposes into its base letter and a combining mark
StripAccentChar(c) ==
    CASE c = "ä" -> "a" [] c = "ö" -> "o" [] c = "ü" -> "u"
      [] c = "Ä" -> "A" [] c = "Ö" -> "O" [] c = "Ü" -> "U"
      [] c = "é" -> "e" [] c = "É" -> "E"
      [] OTHER -> c

StripAccents(s) == JoinSeq([i \in 1..Len(s) |-> StripAccentChar(CharAt(s, i))])

\* re.sub(r"[^A-Za-z0-9]+", " ", s): every run of such characters becomes one space
SubNonAlnumRuns(s) ==
    JoinSeq([i \in 1..Len(s) |->
        IF IsAsciiAlnum(CharAt(s, i)) THEN CharAt(s, i)
        ELSE IF i > 1 /\ ~IsAsciiAlnum(CharAt(s, i - 1)) THEN "" ELSE " "])

\* re.sub(r"\s+", " ", s)
SubSpaceRuns(s) ==
    JoinSeq([i \in 1..Len(s) |->
        IF ~IsSpace(CharAt(s, i)) THEN CharAt(s, i)
        ELSE IF i > 1 /\ IsSpace(CharAt(s, i - 1)) THEN "" ELSE " "])

\* str.strip()
Strip(s) ==
    LET keep == {i \in 1..Len(s) : ~IsSpace(CharAt(s, i))}
    IN  IF keep = {} THEN "" ELSE SubSeq(s, SetMin(keep), SetMax(keep))

\* the k-th smallest element of a set of numbers
Nth(S, k) == CHOOSE x \in S : Cardinality({y \in S : y < x}) = k - 1

\* str.split(): the maximal runs of non-whitespace characters, in order
Split(s) ==
    LET starts == {i \in 1..Len(s) :
                      ~IsSpace(CharAt(s, i)) /\ (i = 1 \/ IsSpace(CharAt(s, i - 1)))}
        ends == {i \in 1..Len(s) :
                      ~IsSpace(CharAt(s, i)) /\ (i = Len(s) \/ IsSpace(CharAt(s, i + 1)))}
    IN  [k \in 1..Cardinality(starts) |-> SubSeq(s, Nth(starts, k), Nth(ends, k))]

\* str.split('\n'): the pieces between line breaks, empty ones included
SplitLines(s) ==
    LET breaks == {i \in 1..Len(s) : CharAt(s, i) = "\n"} \cup {0, Len(s) + 1}
    IN  [k \in 1..(Cardinality(breaks) - 1) |->
            SubSeq(s, Nth(breaks, k) + 1, Nth(breaks, k + 1) - 1)]

\* a in b, for strings
Contains(b, a) ==
    \E i \in 0..(Len(b) - Len(a)) : SubSeq(b, i + 1, i + Len(a)) = a

\* x in list
InList(q, x) == \E i \in 1..Len(q) : q[i] = x

SeqToSet(q) == {q[i] : i \in 1..Len(q)}

(***************************************************************************)
(* Normalisation                                                           *)
(***************************************************************************)
normalize_name(name) == SubSpaceRuns(Strip(Upper(name)))

de_ascii_normalize_strip_first(s) ==
    Upper(SubSpaceRuns(SubNonAlnumRuns(StripAccents(FoldGerman(Strip(s))))))

de_ascii_normalize(s) ==
    Upper(Strip(SubSpaceRuns(SubNonAlnumRuns(StripAccents(FoldGerman(s))))))

prepend_filename_to_text(page_text, pdf_name) ==
    "__FILENAME__: " \o pdf_name \o "\n" \o page_text

(***************************************************************************)
(* File name tokens and the choice among candidates                        *)
(***************************************************************************)
\* re.sub(r"\.[Pp][Dd][Ff]$", "", pdf_name)
StripPdfSuffix(pdf_name) ==
    LET n == Len(pdf_name)
    IN  IF /\ n >= 4
           /\ CharAt(pdf_name, n - 3) = "."
           /\ CharAt(pdf_name, n - 2) \in {"p", "P"}
           /\ CharAt(pdf_name, n - 1) \in {"d", "D"}
           /\ CharAt(pdf_name, n) \in {"f", "F"}
        THEN SubSeq(pdf_name, 1, n - 4)
        ELSE pdf_name

filename_tokens(pdf_name) ==
    Split(Upper(SubNonAlnumRuns(FoldGerman(StripPdfSuffix(pdf_name)))))

NOISE_SURNAME == "ADLER"

\* parts = [p for p in c.strip().split() if p]
NameParts(c) == Split(Strip(c))

\* the test of the filter loop: the candidate's surname is the noise surname and
\* the file name does not carry it
IsDropped(c, toks) ==
    /\ NameParts(c) # <<>>
    /\ Upper(NameParts(c)[1]) = NOISE_SURNAME
    /\ NOISE_SURNAME \notin toks

\* the preference test without the guard on the number of tokens
IsPreferred_any_length(c, toks) ==
    /\ NameParts(c) # <<>>
    /\ Upper(NameParts(c)[1]) \in toks

\* the test of the preference loop
IsPreferred(c, toks) ==
    /\ Len(NameParts(c)) >= 2
    /\ Upper(NameParts(c)[1]) \in toks

choose_best_candidate_drop_always(candidates, pdf_name) ==
    LET toks == SeqToSet(filename_tokens(pdf_name))
        filtered == SelectSeq(candidates,
                        LAMBDA c : ~(NameParts(c) # <<>> /\ Upper(NameParts(c)[1]) = NOISE_SURNAME))
        pref == {i \in 1..Len(filtered) : IsPreferred(filtered[i], toks)}
    IN  IF candidates = <<>> THEN <<>>
        ELSE IF filtered = <<>> THEN <<>>
        ELSE IF pref # {} THEN <<filtered[SetMin(pref)]>>
        ELSE <<filtered[1]>>

\* <<>> is None, <<c>> is the candidate c
choose_best_candidate(candidates, pdf_name) ==
    LET toks == SeqToSet(filename_tokens(pdf_name))
        filtered == SelectSeq(candidates, LAMBDA c : ~IsDropped(c, toks))
        pref == {i \in 1..Len(filtered) : IsPreferred(filtered[i], toks)}
    IN  IF candidates = <<>> THEN <<>>
        ELSE IF filtered = <<>> THEN <<>>
        ELSE IF pref # {} THEN <<filtered[SetMin(pref)]>>
        ELSE <<filtered[1]>>

(***************************************************************************)
(* Name variants and the matcher                                           *)
(***************************************************************************)
EmptyDict == [k \in {} |-> ""]

\* the dict of variants; the empty dict for a name of fewer than two tokens
create_name_variants(full_name) ==
    LET parts == Split(Strip(full_name))
        nachname == parts[1]
        vorname == parts[2]
    IN  IF Len(parts) < 2 THEN EmptyDict
        ELSE [original |-> full_name,
              nachname |-> nachname,
              vorname |-> vorname,
              full_normalized |-> normalize_name(full_name),
              nachname_normalized |-> normalize_name(nachname),
              vorname_normalized |-> normalize_name(vorname),
              ascii_full |-> de_ascii_normalize(full_name),
              ascii_nachname |-> de_ascii_normalize(nachname),
              ascii_vorname |-> de_ascii_normalize(vorname),
              reversed |-> vorname \o " " \o nachname,
              initials |-> Hd(nachname) \o "." \o Hd(vorname) \o ".",
              short_variants |-> << vorname \o " " \o Hd(nachname) \o ".",
                                    Hd(vorname) \o ". " \o nachname,
                                    nachname \o ", " \o vorname,
                                    nachname \o "," \o vorname >>]

\* fuzz.partial_ratio(a, b) of the fuzzywuzzy library, as far as the matcher
\* depends on it: 100 when a occurs in b, and for the texts of this model a
\* score below the threshold of the matcher (given as 0) otherwise
partial_ratio(a, b) == IF a # "" /\ Contains(b, a) THEN 100 ELSE 0

\* the values of the dict that are non-empty strings, and 'short_variants'
VariantStrings(name_variants) ==
    {s \in {name_variants.original, name_variants.nachname, name_variants.vorname,
            name_variants.full_normalized, name_variants.nachname_normalized,
            name_variants.vorname_normalized, name_variants.ascii_full,
            name_variants.ascii_nachname, name_variants.ascii_vorname,
            name_variants.reversed, name_variants.initials} : s # ""}
      \cup SeqToSet(name_variants.short_variants)

\* max_score over all variants; 0 when the import raises ImportError
fuzzy_match_with_threshold(text, name_variants, installed) ==
    IF installed
    THEN SetMax({0} \cup {partial_ratio(Upper(v), Upper(text)) :
                            v \in VariantStrings(name_variants)})
    ELSE 0

SCORE_EXACT == 100

SCORE_ASCII == 95

SCORE_LINE == 90

SCORE_SHORT == 70

FUZZY_MIN == 80

SCORE_WINDOW == 10

\* text_lines = [line.strip() for line in text.split('\n') if line.strip()]
TextLines(text) ==
    LET ls == SplitLines(text)
    IN  SelectSeq([i \in 1..Len(ls) |-> Strip(ls[i])], LAMBDA l : l # "")

\* strategies 1 to 3 of the loop body: 0 when none of them matches
StrategyScore(variants, text_words, text_ascii, text_lines) ==
    IF /\ InList(text_words, variants.nachname_normalized)
       /\ InList(text_words, variants.vorname_normalized)
    THEN SCORE_EXACT
    ELSE IF /\ Contains(text_ascii, variants.ascii_nachname)
            /\ Contains(text_ascii, variants.ascii_vorname)
    THEN SCORE_ASCII
    ELSE IF \E i \in 1..Len(text_lines) :
                /\ Contains(de_ascii_normalize(text_lines[i]), variants.ascii_nachname)
                /\ Contains(de_ascii_normalize(text_lines[i]), variants.ascii_vorname)
    THEN SCORE_LINE
    ELSE 0

\* match_score of one name at the end of the loop body
MatchScore(variants, text, text_words, text_ascii, text_lines, installed) ==
    LET s123 == StrategyScore(variants, text_words, text_ascii, text_lines)
        fuzzy_score == fuzzy_match_with_threshold(text, variants, installed)
        s4 == IF s123 # 0 THEN s123
              ELSE IF fuzzy_score >= FUZZY_MIN THEN fuzzy_score ELSE 0
    IN  IF s4 # 0 THEN s4
        ELSE IF \E i \in 1..Len(variants.short_variants) :
                    Contains(text_ascii, de_ascii_normalize(variants.short_variants[i]))
        THEN SCORE_SHORT
        ELSE 0

\* candidates.sort(key=lambda x: x[1], reverse=True): stable, highest score first
RECURSIVE SortByScore(_)
SortByScore(cands) ==
    IF cands = <<>> THEN <<>>
    ELSE LET top == SetMax({cands[i].score : i \in 1..Len(cands)})
         IN  SelectSeq(cands, LAMBDA c : c.score = top)
               \o SortByScore(SelectSeq(cands, LAMBDA c : c.score # top))

\* the candidates list when the loop over the names ends: every name whose
\* match_score is positive, in the order of names
Candidates(text, names, installed) ==
    LET text_words == Split(normalize_name(text))
        text_ascii == de_ascii_normalize(text)
        text_lines == TextLines(text)
        scored == [i \in 1..Len(names) |->
                     [name |-> names[i],
                      score |-> MatchScore(create_name_variants(names[i]),
                                           text, text_words, text_ascii,
                                           text_lines, installed)]]
    IN  SelectSeq(scored, LAMBDA c : c.score > 0)

\* variants['original'] of the empty dict raises KeyError
RaisesKeyError(names) ==
    \E i \in 1..Len(names) : "original" \notin DOMAIN create_name_variants(names[i])

\* best_candidates = [c[0] for c in candidates if c[1] >= candidates[0][1] - 10]
BestCandidates(sorted) ==
    LET best == SelectSeq(sorted, LAMBDA c : c.score >= sorted[1].score - SCORE_WINDOW)
    IN  [i \in 1..Len(best) |-> best[i].name]

\* x or y, for an optional string x: None and "" are both falsy
OrElse(x, y) == IF x = <<>> \/ x = <<"">> THEN y ELSE x[1]

advanced_name_matching_all_best(text, names, pdf_name, installed) ==
    LET sorted == SortByScore(Candidates(text, names, installed))
    IN  IF RaisesKeyError(names) THEN [raised |-> TRUE, value |-> <<>>]
        ELSE IF sorted # <<>> THEN [raised |-> FALSE, value |-> BestCandidates(sorted)]
        ELSE [raised |-> FALSE, value |-> <<>>]

\* the list returned, or raised = TRUE when the call ends in an exception
advanced_name_matching(text, names, pdf_name, installed) ==
    LET sorted == SortByScore(Candidates(text, names, installed))
    IN  IF RaisesKeyError(names) THEN [raised |-> TRUE, value |-> <<>>]
        ELSE IF sorted # <<>>
        THEN [raised |-> FALSE,
              value |-> << OrElse(choose_best_candidate(BestCandidates(sorted), pdf_name),
                                  sorted[1].name) >>]
        ELSE [raised |-> FALSE, value |-> <<>>]

(***************************************************************************)
(* The spreadsheet                                                         *)
(***************************************************************************)
\* a cell is <<>> (NaN, or a date that does not parse) or <<v>>; a row gives the
\* columns the script reads: c3/c4 and c6/c7 the two drivers (surname, given
\* name), c8 the time as minutes of the day (the fraction of a day the sheet
\* stores, times 1440), c14 the date as a day number (day 0 is a Monday),
\* c15 the tour
NaN == <<>>

WEEKDAYS_DE ==
    <<"Montag", "Dienstag", "Mittwoch", "Donnerstag", "Freitag", "Samstag", "Sonntag">>

Digit(n) == CharAt("0123456789", n + 1)

\* f"{n:02d}"
TwoDigits(n) == IF n < 100 THEN Digit(n \div 10) \o Digit(n % 10) ELSE "??"

MINUTES_PER_HOUR == 60

\* the branches for NaN and for a number
format_time(value) ==
    IF value = NaN THEN ""
    ELSE LET total_minutes == value[1]
         IN  TwoDigits(total_minutes \div MINUTES_PER_HOUR) \o ":"
               \o TwoDigits(total_minutes % MINUTES_PER_HOUR)

\* str() of a cell
StrOf(cell) == IF cell = NaN THEN "nan" ELSE cell[1]

extract_entries(row) ==
    LET datum == row.c14
        weekday == WEEKDAYS_DE[(datum[1] % 7) + 1]
        base(name) == [Datum_raw |-> datum[1],
                       Wochentag |-> weekday,
                       Tour |-> row.c15,
                       Uhrzeit |-> format_time(row.c8),
                       Name |-> name]
    IN  IF datum = NaN THEN <<>>
        ELSE (IF row.c3 # NaN /\ row.c4 # NaN
              THEN <<base(Strip(row.c3[1]) \o " " \o Strip(row.c4[1]))>> ELSE <<>>)
             \o
             (IF row.c6 # NaN /\ row.c7 # NaN
              THEN <<base(Strip(row.c6[1]) \o " " \o Strip(row.c7[1]))>> ELSE <<>>)

RECURSIVE parse_excel_data(_)
parse_excel_data(rows) ==
    IF rows = <<>> THEN <<>>
    ELSE extract_entries(Head(rows)) \o parse_excel_data(Tail(rows))

\* df_excel[df_excel["Datum_raw"].dt.date == search_date]
DayFrame(df, d) == SelectSeq(df, LAMBDA e : e.Datum_raw = d)

\* day_df["Name"].unique().tolist(): the names in the order they first appear
RECURSIVE UniqueNames(_)
UniqueNames(df) ==
    IF df = <<>> THEN <<>>
    ELSE LET front == UniqueNames(SubSeq(df, 1, Len(df) - 1))
             last == df[Len(df)].Name
         IN  IF InList(front, last) THEN front ELSE Append(front, last)

AfterDayFilter_unchecked(df, d) == "pages"

\* where the script goes at the day filter: indexing the column-less frame of
\* an empty entry list raises KeyError, an empty day frame ends in st.stop()
AfterDayFilter(df, d) ==
    IF df = <<>> THEN "crashed"
    ELSE IF DayFrame(df, d) = <<>> THEN "stopped"
    ELSE "pages"

(***************************************************************************)
(* Pages: text extraction, the join with the roster, the report            *)
(***************************************************************************)
OCR_MIN_TEXT == 50

OCR_WARNING == "OCR fehlgeschlagen"

extract_text_with_ocr_empty_on_failure(text, ocr_on, ocr_result) ==
    IF ~ocr_on \/ Len(Strip(text)) > OCR_MIN_TEXT THEN [text |-> text, ocr |-> "skipped"]
    ELSE IF ocr_result = <<>> THEN [text |-> "", ocr |-> "failed"]
    ELSE [text |-> text \o "\n---OCR---\n" \o ocr_result[1], ocr |-> "done"]

\* text is page.get_text("text"); ocr_result is what rendering the page and
\* pytesseract would give: <<>> when one of them raises, else <<ocr_text>>
extract_text_with_ocr(text, ocr_on, ocr_result) ==
    IF ~ocr_on \/ Len(Strip(text)) > OCR_MIN_TEXT THEN [text |-> text, ocr |-> "skipped"]
    ELSE IF ocr_result = <<>> THEN [text |-> text, ocr |-> "failed"]
    ELSE [text |-> text \o "\n---OCR---\n" \o ocr_result[1], ocr |-> "done"]

RosterJoin_last(day, ocr) ==
    LET match_row == SelectSeq(day, LAMBDA e : e.Name = ocr)
    IN  IF ocr = "" THEN <<>>
        ELSE IF match_row # <<>>
        THEN << [matched_name |-> ocr,
                 tour |-> StrOf(match_row[Len(match_row)].Tour),
                 weekday |-> match_row[Len(match_row)].Wochentag,
                 time |-> match_row[Len(match_row)].Uhrzeit] >>
        ELSE <<>>

\* one element of page_ann: <<>> is None
RosterJoin(day, ocr) ==
    LET match_row == SelectSeq(day, LAMBDA e : e.Name = ocr)
    IN  IF ocr = "" THEN <<>>
        ELSE IF match_row # <<>>
        THEN << [matched_name |-> ocr,
                 tour |-> StrOf(match_row[1].Tour),
                 weekday |-> match_row[1].Wochentag,
                 time |-> match_row[1].Uhrzeit] >>
        ELSE <<>>

PageAnn(day, names_found) == [i \in 1..Len(names_found) |-> RosterJoin(day, names_found[i])]

\* stands for the cross mark the report shows for "no name"
CROSS == "[x]"

DisplayRows_matched_only(pdf_name, names_found, page_ann) ==
    SelectSeq([i \in 1..Len(names_found) |->
                 [PDF |-> pdf_name,
                  Seite |-> i,
                  Gefundener_Name |-> IF names_found[i] # "" THEN names_found[i] ELSE CROSS,
                  Zugeordnet |-> IF page_ann[i] # <<>> THEN page_ann[i][1].matched_name
                                 ELSE CROSS \o " Nein",
                  Tour |-> IF page_ann[i] # <<>> THEN page_ann[i][1].tour ELSE "",
                  Wochentag |-> IF page_ann[i] # <<>> THEN page_ann[i][1].weekday ELSE "",
                  Uhrzeit |-> IF page_ann[i] # <<>> THEN page_ann[i][1].time ELSE ""]],
              LAMBDA r : r.Gefundener_Name # CROSS)

\* the rows the loop over zip(ocr_names, page_ann) appends to display_rows
DisplayRows(pdf_name, names_found, page_ann) ==
    [i \in 1..Len(names_found) |->
        [PDF |-> pdf_name,
         Seite |-> i,
         Gefundener_Name |-> IF names_found[i] # "" THEN names_found[i] ELSE CROSS,
         Zugeordnet |-> IF page_ann[i] # <<>> THEN page_ann[i][1].matched_name
                        ELSE CROSS \o " Nein",
         Tour |-> IF page_ann[i] # <<>> THEN page_ann[i][1].tour ELSE "",
         Wochentag |-> IF page_ann[i] # <<>> THEN page_ann[i][1].weekday ELSE "",
         Uhrzeit |-> IF page_ann[i] # <<>> THEN page_ann[i][1].time ELSE ""]]

\* " - ".join(filter(None, [tour, weekday, time]))
StampText(a) ==
    LET parts == SelectSeq(<<a.tour, a.weekday, a.time>>, LAMBDA x : x # "")
    IN  IF parts = <<>> THEN ""
        ELSE IF Len(parts) = 1 THEN parts[1]
        ELSE IF Len(parts) = 2 THEN parts[1] \o " - " \o parts[2]
        ELSE parts[1] \o " - " \o parts[2] \o " - " \o parts[3]

\* the text stamped on each page of the document ("" where nothing is stamped)
annotate_pdf_with_tours(n_pages, ann) ==
    [pno \in 1..n_pages |->
        IF pno > Len(ann) \/ ann[pno] = <<>> THEN "" ELSE StampText(ann[pno][1])]

RATE_MIN == 80

(***************************************************************************)
(* One run of the script: the click on "PDFs analysieren & beschriften"    *)
(***************************************************************************)
MaxPdfs == 2

RECURSIVE SeqsUpTo(_, _)
SeqsUpTo(S, n) ==
    IF n = 0 THEN {<<>>}
    ELSE LET shorter == SeqsUpTo(S, n - 1)
         IN  shorter \cup {Append(q, x) : q \in shorter, x \in S}

BlankRow == [c3 |-> NaN, c4 |-> NaN, c6 |-> NaN, c7 |-> NaN,
             c8 |-> NaN, c14 |-> NaN, c15 |-> NaN]

SheetPool ==
    { <<>>,
      << [BlankRow EXCEPT !.c3 = <<"Schmidt">>, !.c4 = <<"Anna">>, !.c15 = <<"17">>] >>,
      << [BlankRow EXCEPT !.c3 = <<"Schmidt">>, !.c4 = <<"Anna">>, !.c6 = <<"Müller">>,
                          !.c7 = <<" Jo">>, !.c8 = <<450>>, !.c14 = <<0>>, !.c15 = <<"17">>],
         [BlankRow EXCEPT !.c3 = <<"Adler">>, !.c4 = <<"Hans">>, !.c14 = <<0>>],
         [BlankRow EXCEPT !.c3 = <<"Schmidt">>, !.c14 = <<1>>, !.c15 = <<"20">>] >>,
      << [BlankRow EXCEPT !.c3 = <<"Schmidt">>, !.c4 = <<"Anna">>, !.c8 = <<1020>>,
                          !.c14 = <<1>>, !.c15 = <<"19">>],
         [BlankRow EXCEPT !.c3 = <<"Schmidt">>, !.c4 = <<"Anna">>, !.c8 = <<365>>,
                          !.c14 = <<0>>, !.c15 = <<"17">>],
         [BlankRow EXCEPT !.c6 = <<"Schmidt">>, !.c7 = <<"Anna">>, !.c8 = <<480>>,
                          !.c14 = <<0>>, !.c15 = <<"18">>] >>,
      << [BlankRow EXCEPT !.c3 = <<"Adler">>, !.c4 = <<"Hans">>, !.c8 = <<300>>,
                          !.c14 = <<0>>, !.c15 = <<"7">>],
         [BlankRow EXCEPT !.c3 = <<" ">>, !.c4 = <<"Anna">>, !.c14 = <<1>>, !.c15 = <<"8">>] >> }

DatePool == {0, 1}

PdfPool ==
    { [name |-> "Adler_KW12.pdf", pages |-> <<"Schmidt Anna", "">>],
      [name |-> "tour.pdf",
       pages |-> <<"Dienstplan KW 12\nFahrer: Mueller, Jo\nTour und Unterschrift des Fahrers">>] }

OcrPool == {"ADLER HANS\nSchmidt, Anna"}

Init ==
    /\ pc = "idle"
    /\ excel_file \in {<<>>} \cup {<<sheet>> : sheet \in SheetPool}
    /\ search_date \in DatePool
    /\ pdf_files \in SeqsUpTo(PdfPool, MaxPdfs)
    /\ use_ocr \in BOOLEAN
    /\ fuzzy_installed \in BOOLEAN
    /\ df_excel = <<>> /\ day_df = <<>> /\ excel_names = <<>>
    /\ pdf_idx = 0 /\ ocr_names = <<>> /\ page_log = <<>>
    /\ display_rows = <<>> /\ annotated_buffers = <<>> /\ warnings = {}
    /\ args = <<>> /\ ret = <<>>

\* no PDF uploaded: st.info and st.stop() before the button is shown
NoPdfs ==
    /\ pc = "idle"
    /\ pdf_files = <<>>
    /\ pc' = "stopped"
    /\ UNCHANGED <<excel_file, search_date, pdf_files, use_ocr, fuzzy_installed,
                   df_excel, day_df, excel_names, pdf_idx, ocr_names, page_log,
                   display_rows, annotated_buffers, warnings, args, ret>>

\* the click without a spreadsheet: st.error and st.stop()
ClickWithoutExcel ==
    /\ pc = "idle"
    /\ pdf_files # <<>>
    /\ excel_file = <<>>
    /\ warnings' = warnings \cup {"Bitte auch die Excel-Datei hochladen!"}
    /\ pc' = "stopped"
    /\ UNCHANGED <<excel_file, search_date, pdf_files, use_ocr, fuzzy_installed,
                   df_excel, day_df, excel_names, pdf_idx, ocr_names, page_log,
                   display_rows, annotated_buffers, args, ret>>

\* the click: the spreadsheet is read
ParseExcel ==
    /\ pc = "idle"
    /\ pdf_files # <<>>
    /\ excel_file # <<>>
    /\ df_excel' = parse_excel_data(excel_file[1])
    /\ pc' = "parsed"
    /\ UNCHANGED <<excel_file, search_date, pdf_files, use_ocr, fuzzy_installed,
                   day_df, excel_names, pdf_idx, ocr_names, page_log,
                   display_rows, annotated_buffers, warnings, args, ret>>

\* the entries of the day and their names
FilterDay ==
    /\ pc = "parsed"
    /\ pc' = AfterDayFilter(df_excel, search_date)
    /\ IF pc' = "pages"
       THEN /\ day_df' = DayFrame(df_excel, search_date)
            /\ excel_names' = UniqueNames(day_df')
            /\ pdf_idx' = 1
            /\ UNCHANGED warnings
       ELSE /\ warnings' = IF pc' = "stopped"
                           THEN warnings \cup {"Keine Einträge gefunden!"}
                           ELSE warnings
            /\ UNCHANGED <<day_df, excel_names, pdf_idx>>
    /\ UNCHANGED <<excel_file, search_date, pdf_files, use_ocr, fuzzy_installed,
                   df_excel, ocr_names, page_log, display_rows, annotated_buffers,
                   args, ret>>

\* one turn of the loop of extract_names_enhanced: the next page of the PDF
ProcessPage ==
    /\ pc = "pages"
    /\ Len(ocr_names) < Len(pdf_files[pdf_idx].pages)
    /\ \E ocr_result \in {<<>>} \cup {<<t>> : t \in OcrPool} :
         LET pdf == pdf_files[pdf_idx]
             page_idx == Len(ocr_names) + 1
             got == extract_text_with_ocr(pdf.pages[page_idx], use_ocr, ocr_result)
             text_with_filename == prepend_filename_to_text(got.text, pdf.name)
             matched == advanced_name_matching(text_with_filename, excel_names,
                                               pdf.name, fuzzy_installed)
         IN  /\ warnings' = IF got.ocr = "failed" THEN warnings \cup {OCR_WARNING}
                            ELSE warnings
             /\ page_log' = Append(page_log, [pdf |-> pdf_idx, page |-> page_idx,
                                              ocr |-> got.ocr, text |-> text_with_filename])
             /\ IF matched.raised
                THEN pc' = "crashed" /\ UNCHANGED ocr_names
                ELSE /\ pc' = "pages"
                     /\ ocr_names' = Append(ocr_names,
                                            IF matched.value # <<>> THEN matched.value[1] ELSE "")
    /\ UNCHANGED <<excel_file, search_date, pdf_files, use_ocr, fuzzy_installed,
                   df_excel, day_df, excel_names, pdf_idx, display_rows,
                   annotated_buffers, args, ret>>

\* the PDF's pages are done: join with the roster, report rows, annotation
AnnotatePdf ==
    /\ pc = "pages"
    /\ Len(ocr_names) = Len(pdf_files[pdf_idx].pages)
    /\ LET pdf == pdf_files[pdf_idx]
           page_ann == PageAnn(day_df, ocr_names)
       IN  /\ display_rows' = display_rows \o DisplayRows(pdf.name, ocr_names, page_ann)
           /\ annotated_buffers' = Append(annotated_buffers,
                                          annotate_pdf_with_tours(Len(pdf.pages), page_ann))
    /\ ocr_names' = <<>>
    /\ IF pdf_idx < Len(pdf_files)
       THEN pdf_idx' = pdf_idx + 1 /\ pc' = "pages"
       ELSE pdf_idx' = pdf_idx /\ pc' = "report"
    /\ UNCHANGED <<excel_file, search_date, pdf_files, use_ocr, fuzzy_installed,
                   df_excel, day_df, excel_names, page_log, warnings, args, ret>>

\* the summary: the table, the statistics and the hint on a low rate
Report ==
    /\ pc = "report"
    /\ LET total_pages == Len(display_rows)
           successful_matches ==
               Cardinality({i \in 1..Len(display_rows) :
                               display_rows[i].Gefundener_Name # CROSS})
       IN  warnings' = IF total_pages = 0 \/ successful_matches * 100 < RATE_MIN * total_pages
                       THEN warnings \cup {"Niedrige Erkennungsrate"}
                       ELSE warnings
    /\ pc' = "done"
    /\ UNCHANGED <<excel_file, search_date, pdf_files, use_ocr, fuzzy_installed,
                   df_excel, day_df, excel_names, pdf_idx, ocr_names, page_log,
                   display_rows, annotated_buffers, args, ret>>

Next ==
    \/ NoPdfs
    \/ ClickWithoutExcel
    \/ ParseExcel
    \/ FilterDay
    \/ ProcessPage
    \/ AnnotatePdf
    \/ Report

Spec == Init /\ [][Next]_vars

(***************************************************************************)
(* Calls of single functions: the arguments are drawn from bounded sets,   *)
(* the action is the call                                                  *)
(***************************************************************************)
MaxLen == 3

MaxCands == 3

MaxNames == 3

NormAlphabet == {"a", "Z", "7", "ä", "Ü", "ß", "é", " ", "\n", "-"}

RECURSIVE StringsUpTo(_)
StringsUpTo(n) ==
    IF n = 0 THEN {""}
    ELSE LET shorter == StringsUpTo(n - 1)
         IN  shorter \cup {s \o c : s \in shorter, c \in NormAlphabet}

\* sequences without repetition of at most n elements of S
RECURSIVE UniqueSeqs(_, _)
UniqueSeqs(S, n) ==
    IF n = 0 THEN {<<>>}
    ELSE LET shorter == UniqueSeqs(S, n - 1)
         IN  shorter \cup UNION {{Append(q, x) : x \in S \ SeqToSet(q)} : q \in shorter}

CandPool == {"Adler Hans", "adler eva", "Kurz Eva", "Müller Jo", "Mueller"}

FilePool == {"tour.pdf", "Adler_KW12.PDF", "Mueller-Jo.pdf"}

NamePool == {"Adler Hans", "Schmidt Anna", "Müller Jo", " Anna"}

BodyPool == {"", "Adler Hans", "Firma Adler, Hans\nSCHMIDT ANNA",
             "Mueller, Jö\nA. Schmidt", "Müller Jo\nADLER H."}

\* the script between two button clicks: nothing uploaded, nothing computed
IdleRun ==
    /\ excel_file = <<>> /\ search_date = 0 /\ pdf_files = <<>>
    /\ use_ocr = FALSE /\ fuzzy_installed = FALSE
    /\ df_excel = <<>> /\ day_df = <<>> /\ excel_names = <<>>
    /\ pdf_idx = 0 /\ ocr_names = <<>> /\ page_log = <<>>
    /\ display_rows = <<>> /\ annotated_buffers = <<>> /\ warnings = {}

run_vars == <<excel_file, search_date, pdf_files, use_ocr, fuzzy_installed,
              df_excel, day_df, excel_names, pdf_idx, ocr_names, page_log,
              display_rows, annotated_buffers, warnings>>

\* ---- de_ascii_normalize, applied once and then to its own result
InitNormalize ==
    /\ pc = "call"
    /\ args \in {<<s>> : s \in StringsUpTo(MaxLen)}
    /\ ret = <<>>
    /\ IdleRun

Normalize ==
    /\ pc = "call"
    /\ ret' = <<de_ascii_normalize(args[1])>>
    /\ pc' = "once"
    /\ UNCHANGED <<args, run_vars>>

NormalizeAgain ==
    /\ pc = "once"
    /\ args' = ret
    /\ ret' = <<de_ascii_normalize(ret[1])>>
    /\ pc' = "twice"
    /\ UNCHANGED run_vars

NextNormalize == Normalize \/ NormalizeAgain

SpecNormalize == InitNormalize /\ [][NextNormalize]_vars

\* ---- choose_best_candidate
InitChoose ==
    /\ pc = "call"
    /\ args \in {<<c, f>> : c \in SeqsUpTo(CandPool, MaxCands), f \in FilePool}
    /\ ret = <<>>
    /\ IdleRun

Choose ==
    /\ pc = "call"
    /\ ret' = choose_best_candidate(args[1], args[2])
    /\ pc' = "returned"
    /\ UNCHANGED <<args, run_vars>>

SpecChoose == InitChoose /\ [][Choose]_vars

\* ---- advanced_name_matching, on a page text that carries the file name line
InitMatch ==
    /\ pc = "call"
    /\ args \in {<<prepend_filename_to_text(b, f), n, f, inst>> :
                    b \in BodyPool, f \in FilePool, inst \in BOOLEAN,
                    n \in UniqueSeqs(NamePool, MaxNames)}
    /\ ret = <<>>
    /\ IdleRun

\* neither advanced_name_matching nor fuzzy_match_with_threshold calls st.warning
Match ==
    /\ pc = "call"
    /\ ret' = advanced_name_matching(args[1], args[2], args[3], args[4])
    /\ pc' = "returned"
    /\ UNCHANGED <<args, run_vars>>

SpecMatch == InitMatch /\ [][Match]_vars

(***************************************************************************)
(* Properties                                                              *)
(***************************************************************************)
SurnameIsNoise(c) == NameParts(c) # <<>> /\ Upper(NameParts(c)[1]) = "ADLER"

FileCarriesNoise(pdf_name) == "ADLER" \in SeqToSet(filename_tokens(pdf_name))

\* C1 as stated: for a non-empty candidate list choose_best_candidate returns one
\* of the candidates and never None; it returns None only for the empty list.
C1_NeverAbsent ==
    pc = "returned" =>
        /\ args[1] # <<>> => (ret # <<>> /\ ret[1] \in SeqToSet(args[1]))
        /\ ret = <<>> => args[1] = <<>>

\* C1 as amended: the result is None or one of the candidates, and it is None
\* exactly when the list is empty or every candidate has the surname ADLER while
\* ADLER is no token of the file name.
C1_AbsentOnlyWhenAllDropped ==
    pc = "returned" =>
        /\ ret # <<>> => ret[1] \in SeqToSet(args[1])
        /\ ret = <<>> <=>
              \/ args[1] = <<>>
              \/ /\ \A i \in 1..Len(args[1]) : SurnameIsNoise(args[1][i])
                 /\ ~FileCarriesNoise(args[2])

C1_Witness ==
    /\ pc = "returned"
    /\ Len(args[1]) >= 2
    /\ ret = <<>>

\* C9: de_ascii_normalize is idempotent, normalising its own result changes
\* nothing, and it maps the empty string to the empty string.
C9_Idempotent ==
    /\ pc = "twice" => ret = args
    /\ (pc = "once" /\ args = <<"">>) => ret = <<"">>

C9_Witness ==
    /\ pc = "twice"
    /\ args = <<"UE SS">>
    /\ ret = <<"UE SS">>

HasShortName(names) == \E i \in 1..Len(names) : Len(Split(names[i])) < 2

\* C3 as stated: a roster name of fewer than 2 tokens has an empty variant set
\* and advanced_name_matching on a list holding such a name raises no error.
C3_ShortNameSkipped ==
    (pc = "returned" /\ HasShortName(args[2])) =>
        /\ \A i \in 1..Len(args[2]) :
              Len(Split(args[2][i])) < 2 => DOMAIN create_name_variants(args[2][i]) = {}
        /\ ~ret.raised

\* the names the matcher accepts for the page text: those it puts in candidates
Accepted(a) == Candidates(a[1], a[2], a[4])

\* C4 as stated: every roster name the matcher accepts for the page text is in
\* the list advanced_name_matching returns.
C4_AllAcceptedReturned ==
    (pc = "returned" /\ ~ret.raised) =>
        \A i \in 1..Len(Accepted(args)) : InList(ret.value, Accepted(args)[i].name)

\* C4 as amended: advanced_name_matching returns the empty list when it accepts
\* no name and otherwise exactly one name, an accepted one whose score is at
\* most 10 below the best score.
C4_OneAcceptedReturned ==
    (pc = "returned" /\ ~ret.raised) =>
        LET acc == Accepted(args)
            best == SetMax({acc[i].score : i \in 1..Len(acc)})
        IN  /\ acc = <<>> => ret.value = <<>>
            /\ acc # <<>> =>
                  /\ Len(ret.value) = 1
                  /\ \E i \in 1..Len(acc) :
                        acc[i].name = ret.value[1] /\ acc[i].score >= best - 10

C4_Witness ==
    /\ pc = "returned"
    /\ ~ret.raised
    /\ Len(Accepted(args)) >= 2
    /\ Len(ret.value) = 1

\* the fuzzy strategy is consulted for a name when strategies 1 to 3 find nothing
FuzzyConsulted(a) ==
    \E i \in 1..Len(a[2]) :
        StrategyScore(create_name_variants(a[2][i]), Split(normalize_name(a[1])),
                      de_ascii_normalize(a[1]), TextLines(a[1])) = 0

\* C6 as stated: when the similarity library cannot be imported and the fuzzy
\* strategy is consulted, a warning is surfaced to the user.
C6_WarningWhenLibraryMissing ==
    (pc = "returned" /\ ~ret.raised /\ ~args[4] /\ FuzzyConsulted(args)) =>
        warnings # {}

\* C10 as stated: the name advanced_name_matching chooses for a page has the
\* surname ADLER only if ADLER is a token of the file name.
C10_NoiseSurnameNeverChosen ==
    (pc = "returned" /\ ~ret.raised /\ ret.value # <<>>) =>
        (SurnameIsNoise(ret.value[1]) => FileCarriesNoise(args[3]))

\* the report row of the k-th processed page has no match and no payload
NoMatchRow(r) ==
    /\ r.Gefundener_Name = CROSS
    /\ r.Tour = "" /\ r.Wochentag = "" /\ r.Uhrzeit = ""

RECURSIVE TotalPages(_)
TotalPages(pdfs) ==
    IF pdfs = <<>> THEN 0 ELSE Len(Head(pdfs).pages) + TotalPages(Tail(pdfs))

EntriesFor(name) ==
    {i \in 1..Len(df_excel) :
        df_excel[i].Name = name /\ df_excel[i].Datum_raw = search_date}

\* C5: the payload of a page comes from the first roster entry in parse order
\* whose name is the page's matched name and whose date is the target date; a
\* page whose name has no entry on the target date has no payload.
C5_JoinTakesFirstEntryOfTheDay ==
    \A k \in 1..Len(display_rows) :
        LET r == display_rows[k]
            idx == EntriesFor(r.Gefundener_Name)
        IN  IF r.Gefundener_Name # CROSS /\ idx # {}
            THEN /\ r.Zugeordnet = r.Gefundener_Name
                 /\ r.Tour = StrOf(df_excel[SetMin(idx)].Tour)
                 /\ r.Wochentag = df_excel[SetMin(idx)].Wochentag
                 /\ r.Uhrzeit = df_excel[SetMin(idx)].Uhrzeit
            ELSE r.Tour = "" /\ r.Wochentag = "" /\ r.Uhrzeit = ""

C5_Witness ==
    \E k \in 1..Len(display_rows) :
        /\ Cardinality(EntriesFor(display_rows[k].Gefundener_Name)) >= 2
        /\ \E i \in 1..Len(df_excel) :
              /\ df_excel[i].Name = display_rows[k].Gefundener_Name
              /\ df_excel[i].Datum_raw # search_date
              /\ i < SetMin(EntriesFor(display_rows[k].Gefundener_Name))
        /\ display_rows[k].Tour = "17"
        /\ display_rows[k].Uhrzeit = "06:05"

\* C7: when the spreadsheet gives no roster entry at all, the run ends before
\* any page is matched, annotated or reported.
C7_NoEntriesNoMatching ==
    (excel_file # <<>> /\ parse_excel_data(excel_file[1]) = <<>>) =>
        /\ pc \in {"idle", "stopped", "parsed", "crashed"}
        /\ page_log = <<>> /\ ocr_names = <<>>
        /\ display_rows = <<>> /\ annotated_buffers = <<>>

C7_Witness ==
    /\ pc = "crashed"
    /\ excel_file # <<>> /\ excel_file[1] # <<>>
    /\ df_excel = <<>>
    /\ Len(pdf_files) = 2

\* the (PDF, page) pairs of the upload, PDFs in upload order, pages ascending
RECURSIVE ExpectedKeys(_)
ExpectedKeys(pdfs) ==
    IF pdfs = <<>> THEN <<>>
    ELSE [i \in 1..Len(Head(pdfs).pages) |-> <<Head(pdfs).name, i>>]
           \o ExpectedKeys(Tail(pdfs))

\* C8: the report has exactly one row per page of every uploaded PDF, PDFs in
\* upload order and pages ascending, and the row of a page without a matched
\* name has an empty tour, weekday and time.
C8_OneRowPerPageInOrder ==
    /\ pc \in {"report", "done"} =>
          [k \in 1..Len(display_rows) |-> <<display_rows[k].PDF, display_rows[k].Seite>>]
              = ExpectedKeys(pdf_files)
    /\ \A k \in 1..Len(display_rows) :
          display_rows[k].Gefundener_Name = CROSS => NoMatchRow(display_rows[k])

C8_Witness ==
    /\ pc = "done"
    /\ Len(pdf_files) = 2
    /\ Len(display_rows) >= 3
    /\ \E k \in 1..Len(display_rows) : display_rows[k].Gefundener_Name = CROSS
    /\ \E k \in 1..Len(display_rows) : display_rows[k].Tour # ""

\* the candidates left after the drop of the noise surname, in input order
Remaining(cands, pdf_name) ==
    SelectSeq(cands, LAMBDA c : ~(SurnameIsNoise(c) /\ ~FileCarriesNoise(pdf_name)))

\* the first token of the candidate, uppercased, is a token of the file name
SurnameInFile(c, pdf_name) ==
    /\ NameParts(c) # <<>>
    /\ Upper(NameParts(c)[1]) \in SeqToSet(filename_tokens(pdf_name))

====
